---------------------------- MODULE Spec2Model ----------------------------
(***************************************************************************)
(* Legacy transaction encoding/decoding and EIP-155 replay protection,     *)
(* ethcore/transaction/src/transaction/legacy.rs.                          *)
(*                                                                         *)
(* Byte strings are sequences over 0..255.  A U256 is held as its minimal  *)
(* big-endian byte string (no leading zero byte, at most 32 bytes), a u64  *)
(* as a natural number of U64Bits bits, an H256 as the record naming the   *)
(* byte string it is the keccak digest of (keccak is collision free here). *)
(* An Option<T> is the empty sequence (None) or a one-element sequence.    *)
(***************************************************************************)
EXTENDS Naturals, Sequences, FiniteSets, TLC

\* Width of the model's u64 (the program's is 64 bits).
U64Bits == 8

\* Largest number of set_hash calls followed on one envelope.
MaxSetHash == 2

\* Largest chain id of the contiguous range 0..MaxChainId tried.
MaxChainId == 1

U64Modulus == 2 ^ U64Bits

U64Max == U64Modulus - 1

RECURSIVE Concat(_)
\* RlpStream: the items appended to a list, one after the other.
Concat(items) ==
    IF items = <<>> THEN <<>> ELSE Head(items) \o Concat(Tail(items))

RECURSIVE ToBeBytes(_)
\* rlp Encodable for u64: big-endian bytes with leading zeros trimmed.
ToBeBytes(n) ==
    IF n = 0 THEN <<>> ELSE Append(ToBeBytes(n \div 256), n % 256)

RECURSIVE FromBeBytes(_)
\* Big-endian value of a byte string.
FromBeBytes(b) ==
    IF b = <<>> THEN 0
    ELSE 256 * FromBeBytes(SubSeq(b, 1, Len(b) - 1)) + b[Len(b)]

\* RLP header of a payload of len bytes: base + len up to 55 bytes, else
\* base + 55 + (number of length bytes) followed by the length.
EncodeHeader(base, len) ==
    IF len <= 55 THEN <<base + len>>
    ELSE LET be == ToBeBytes(len) IN <<base + 55 + Len(be)>> \o be

\* RlpStream::append of a byte string: a single byte below 0x80 is itself.
EncodeBytes(b) ==
    IF Len(b) = 1 /\ b[1] < 128 THEN b ELSE EncodeHeader(128, Len(b)) \o b

\* RlpStream::append of a u64.
EncodeU64(n) == EncodeBytes(ToBeBytes(n))

\* RlpStream::append of a U256 (held as its minimal big-endian bytes).
EncodeU256(u) == EncodeBytes(u)

\* A finished list of already encoded items.
EncodeList(items) ==
    LET payload == Concat(items) IN EncodeHeader(192, Len(payload)) \o payload

\* RlpStream::begin_list(declared) followed by the appends: the stream is
\* finished, and as_raw() is the list, only once `declared` items are in.
StreamOut(declared, items) ==
    IF Len(items) = declared
    THEN [finished |-> TRUE, raw |-> EncodeList(items)]
    ELSE [finished |-> FALSE, raw |-> <<>>]

\* hash::keccak: the digest of a byte string.
keccak(bytes) == [digest_of |-> bytes]

(***************************************************************************)
(* The rlp decoder.  A result is [ok, err, val]; err is the DecoderError   *)
(* variant's name.                                                         *)
(***************************************************************************)
Ok(v) == [ok |-> TRUE, err |-> "", val |-> v]

Err(e) == [ok |-> FALSE, err |-> e, val |-> <<>>]

\* A long-form header whose length bytes give n.
LongPayloadInfo(lol, n) ==
    IF n <= 55 THEN Err("RlpInvalidIndirection")
    ELSE Ok([header_len |-> 1 + lol, value_len |-> n])

\* calculate_payload_info: lol length bytes follow the first byte.
CalculatePayloadInfo(b, lol) ==
    IF Len(b) < 2 THEN Err("RlpIsTooShort")
    ELSE IF b[2] = 0 THEN Err("RlpDataLenWithZeroPrefix")
    ELSE IF Len(b) < 1 + lol THEN Err("RlpIsTooShort")
    ELSE LongPayloadInfo(lol, FromBeBytes(SubSeq(b, 2, 1 + lol)))

\* PayloadInfo::from: header and payload lengths of the item b starts with.
PayloadInfoFrom(b) ==
    IF b = <<>> THEN Err("RlpIsTooShort")
    ELSE IF b[1] <= 127 THEN Ok([header_len |-> 0, value_len |-> 1])
    ELSE IF b[1] <= 183 THEN Ok([header_len |-> 1, value_len |-> b[1] - 128])
    ELSE IF b[1] >= 192 /\ b[1] <= 247
         THEN Ok([header_len |-> 1, value_len |-> b[1] - 192])
    ELSE CalculatePayloadInfo(b, IF b[1] <= 191 THEN b[1] - 183 ELSE b[1] - 247)

\* The item described by info must fit in the bytes given.
FitsIn(b, info) ==
    IF ~info.ok THEN info
    ELSE IF info.val.header_len + info.val.value_len > Len(b)
         THEN Err("RlpIsTooShort")
    ELSE info

\* Rlp::payload_info
PayloadInfo(b) == FitsIn(b, PayloadInfoFrom(b))

\* The payload the header info describes.
PayloadOf(b, info) ==
    IF ~info.ok THEN Err(info.err)
    ELSE Ok(SubSeq(b, info.val.header_len + 1,
                   info.val.header_len + info.val.value_len))

\* Length in bytes of the item info describes, 0 when it does not parse.
ItemLen(info) ==
    IF info.ok THEN info.val.header_len + info.val.value_len ELSE 0

\* Rlp::is_list
IsList(b) == b # <<>> /\ b[1] >= 192

\* Rlp::is_data
IsData(b) == b # <<>> /\ b[1] < 192

\* Rlp::is_empty: the empty string or the empty list.
IsEmpty(b) == b # <<>> /\ (b[1] = 192 \/ b[1] = 128)

RECURSIVE SplitItems(_)
RECURSIVE SplitAt(_, _)
\* The raw items of a list payload, as the list iterator walks them; the
\* walk stops at the first item that does not parse.
SplitItems(p) ==
    IF p = <<>> THEN <<>> ELSE SplitAt(p, ItemLen(PayloadInfo(p)))

\* The first n bytes are an item; the rest is walked on.
SplitAt(p, n) ==
    IF n = 0 THEN <<>>
    ELSE <<SubSeq(p, 1, n)>> \o SplitItems(SubSeq(p, n + 1, Len(p)))

\* The raw items of the payload a list's header describes.
ItemsOf(payload) == IF payload.ok THEN SplitItems(payload.val) ELSE <<>>

\* The raw items of the list d; none when its header does not parse.
ListItems(d) == ItemsOf(PayloadOf(d, PayloadInfo(d)))

\* Rlp::item_count
item_count(d) ==
    IF ~IsList(d) THEN Err("RlpExpectedToBeList") ELSE Ok(Len(ListItems(d)))

\* Item index (0-based) of the items walked.
ItemAt(items, index) ==
    IF index >= Len(items) THEN Err("RlpIsTooShort") ELSE Ok(items[index + 1])

\* Rlp::at: the raw bytes of item index (0-based) of the list d.
at(d, index) ==
    IF ~IsList(d) THEN Err("RlpExpectedToBeList")
    ELSE ItemAt(ListItems(d), index)

\* BasicDecoder::decode_value: the payload of a string item.
decode_value(b) ==
    IF b = <<>> THEN Err("RlpIsTooShort")
    ELSE IF b[1] <= 127 THEN Ok(<<b[1]>>)
    ELSE IF b[1] <= 183 THEN
        IF Len(b) < 1 + (b[1] - 128) THEN Err("RlpInconsistentLengthAndData")
        ELSE IF b[1] = 129 /\ b[2] < 128 THEN Err("RlpInvalidIndirection")
        ELSE Ok(SubSeq(b, 2, 1 + (b[1] - 128)))
    ELSE IF b[1] <= 191 THEN PayloadOf(b, PayloadInfo(b))
    ELSE Err("RlpExpectedToBeData")

\* Decodable for U256, of a decoded value: no leading zero byte, at most
\* 32 bytes.
U256From(v) ==
    IF ~v.ok THEN v
    ELSE IF v.val # <<>> /\ v.val[1] = 0 THEN Err("RlpInvalidIndirection")
    ELSE IF Len(v.val) > 32 THEN Err("RlpIsTooBig")
    ELSE Ok(v.val)

\* Decodable for u64, of a decoded value: no leading zero byte, and the
\* value fits the width.
U64From(v) ==
    IF ~v.ok THEN v
    ELSE IF v.val = <<>> THEN Ok(0)
    ELSE IF Len(v.val) > (U64Bits + 7) \div 8 THEN Err("RlpIsTooBig")
    ELSE IF v.val[1] = 0 THEN Err("RlpInvalidIndirection")
    ELSE IF FromBeBytes(v.val) > U64Max THEN Err("RlpIsTooBig")
    ELSE Ok(FromBeBytes(v.val))

\* Action: create a contract, or call the account at a 20-byte address.
Create == [tag |-> "Create", address |-> <<>>]

Call(a) == [tag |-> "Call", address |-> a]

\* Encodable for Action: the empty string for Create, the address for Call.
EncodeAction(a) ==
    IF a.tag = "Create" THEN EncodeBytes(<<>>) ELSE EncodeBytes(a.address)

\* Decodable for H160, of a decoded value: exactly 20 bytes.
AddressFrom(v) ==
    IF ~v.ok THEN v
    ELSE IF Len(v.val) < 20 THEN Err("RlpIsTooShort")
    ELSE IF Len(v.val) > 20 THEN Err("RlpIsTooBig")
    ELSE Ok(Call(v.val))

\* Decodable for Action: an empty item is Create, anything else an H160.
DecodeAction(b) ==
    IF IsEmpty(b) THEN
        IF IsData(b) THEN Ok(Create) ELSE Err("RlpExpectedToBeData")
    ELSE AddressFrom(decode_value(b))

\* as_val of the item a read found, for each field type.
AsU256(a) == IF a.ok THEN U256From(decode_value(a.val)) ELSE a

AsU64(a) == IF a.ok THEN U64From(decode_value(a.val)) ELSE a

AsBytes(a) == IF a.ok THEN decode_value(a.val) ELSE a

AsAction(a) == IF a.ok THEN DecodeAction(a.val) ELSE a

\* The six fields of a transaction and the three of its signature, read
\* from the items of a list; a missing item is RlpIsTooShort.
FieldsOf(items) ==
    <<AsU256(ItemAt(items, 0)), AsU256(ItemAt(items, 1)),
      AsU256(ItemAt(items, 2)), AsAction(ItemAt(items, 3)),
      AsU256(ItemAt(items, 4)), AsBytes(ItemAt(items, 5)),
      AsU64(ItemAt(items, 6)), AsU256(ItemAt(items, 7)),
      AsU256(ItemAt(items, 8))>>

\* Rlp::val_at(i) of every field position i = 0..8 of d, as the decoders
\* below call it (position i is element i + 1).
val_at(d) ==
    IF ~IsList(d) THEN [i \in 1 .. 9 |-> Err("RlpExpectedToBeList")]
    ELSE FieldsOf(ListItems(d))

(***************************************************************************)
(* The program state.                                                      *)
(***************************************************************************)
VARIABLES
    overflow_checks,  \* whether the build panics on integer overflow (else it wraps)
    tx,               \* Option<LegacyTransaction>: the unsigned transaction held
    env,              \* Option<UnverifiedLegacyTransaction>: the envelope held
    origin,           \* how env was constructed, and the digest last supplied for it
    op,               \* the operation that ran last
    arg,              \* its arguments
    ret,              \* what it returned
    set_hash_calls    \* number of set_hash calls on env since its construction

vars == <<overflow_checks, tx, env, origin, op, arg, ret, set_hash_calls>>

(***************************************************************************)
(* LegacyTransaction                                                       *)
(***************************************************************************)
\* struct LegacyTransaction
LegacyTransaction(nonce, gas_price, gas, action, value, data) ==
    [nonce |-> nonce, gas_price |-> gas_price, gas |-> gas,
     action |-> action, value |-> value, data |-> data]

\* tx list item count
payload_size(chain_id) == IF chain_id = <<>> THEN 6 ELSE 9

\* Append object with a without signature into RLP stream
rlp_append_unsigned_transaction(t, chain_id) ==
    StreamOut(payload_size(chain_id),
        <<EncodeU256(t.nonce), EncodeU256(t.gas_price), EncodeU256(t.gas),
          EncodeAction(t.action), EncodeU256(t.value), EncodeBytes(t.data)>>
        \o (IF chain_id # <<>>
            THEN <<EncodeU64(chain_id[1]), EncodeU64(0), EncodeU64(0)>>
            ELSE <<>>))

\* The message hash of the transaction.
message_hash(t, chain_id) ==
    keccak(rlp_append_unsigned_transaction(t, chain_id).raw)

\* Index of the first failed read of a sequence of results, 0 when none failed.
FirstErr(rs) ==
    IF \A i \in 1 .. Len(rs) : rs[i].ok THEN 0
    ELSE CHOOSE i \in 1 .. Len(rs) : ~rs[i].ok /\ \A j \in 1 .. (i - 1) : rs[j].ok

\* The transaction built from the six reads f, or the error of read k.
LegacyTransactionAt(f, k) ==
    IF k # 0 THEN [ok |-> FALSE, err |-> f[k].err, val |-> <<>>, reads |-> k]
    ELSE [ok |-> TRUE, err |-> "",
          val |-> LegacyTransaction(f[1].val, f[2].val, f[3].val, f[4].val,
                                    f[5].val, f[6].val),
          reads |-> 6]

\* The reads are taken in order and the first error returns at once.
LegacyTransactionFrom(f) == LegacyTransactionAt(f, FirstErr(f))

\* Mutant: the decode with a check that the list holds exactly 6 items.
LegacyTransaction_decode_counted(d) ==
    IF item_count(d).ok /\ item_count(d).val # 6
    THEN [ok |-> FALSE, err |-> "RlpIncorrectListLen", val |-> <<>>, reads |-> 0]
    ELSE LegacyTransactionFrom(SubSeq(val_at(d), 1, 6))

\* <LegacyTransaction as rlp::Decodable>::decode: val_at(0) .. val_at(5);
\* `reads` counts the fields read.
LegacyTransaction_decode(d) == LegacyTransactionFrom(SubSeq(val_at(d), 1, 6))

(***************************************************************************)
(* eip155_methods: replay protection logic for v part of the signature     *)
(***************************************************************************)
\* A u64 operation's outcome: with overflow checks it panics when the exact
\* result does not fit, otherwise the result wraps.
U64Op(exact) ==
    IF exact <= U64Max THEN [panic |-> FALSE, val |-> exact]
    ELSE IF overflow_checks THEN [panic |-> TRUE, val |-> 0]
    ELSE [panic |-> FALSE, val |-> exact % U64Modulus]

\* Adds chain id into v:  v + if let Some(n) = chain_id { 35 + n * 2 } else { 27 }
add_chain_replay_protection(v, chain_id) ==
    LET twice == U64Op(chain_id[1] * 2)
        offset == IF chain_id = <<>> THEN [panic |-> FALSE, val |-> 27]
                  ELSE IF twice.panic THEN twice
                  ELSE U64Op(35 + twice.val)
    IN  IF offset.panic THEN offset ELSE U64Op(v + offset.val)

\* Mutant: every v from 35 on is taken as chain-bound.
check_replay_protection_from_35(v) ==
    IF v = 27 THEN 0
    ELSE IF v = 28 THEN 1
    ELSE IF v >= 35 THEN (v - 1) % 2
    ELSE 4

\* Returns refined v: 0 if v would have been 27 under "Electrum" notation,
\* 1 if 28 or 4 if invalid.
check_replay_protection(v) ==
    IF v = 27 THEN 0
    ELSE IF v = 28 THEN 1
    ELSE IF v > 36 THEN (v - 1) % 2
    ELSE 4

(***************************************************************************)
(* UnverifiedLegacyTransaction                                             *)
(***************************************************************************)
\* struct UnverifiedLegacyTransaction
UnverifiedLegacyTransaction(unsigned, network_v, r, s, hash) ==
    [unsigned |-> unsigned, network_v |-> network_v, r |-> r, s |-> s,
     hash |-> hash]

\* Mutant: r and s appended in the other order.
rlp_append_sealed_s_before_r(e) ==
    StreamOut(9,
        <<EncodeU256(e.unsigned.nonce), EncodeU256(e.unsigned.gas_price),
          EncodeU256(e.unsigned.gas), EncodeAction(e.unsigned.action),
          EncodeU256(e.unsigned.value), EncodeBytes(e.unsigned.data),
          EncodeU64(e.network_v), EncodeU256(e.s), EncodeU256(e.r)>>)

\* Append object with a signature into RLP stream
rlp_append_sealed_transaction(e) ==
    StreamOut(9,
        <<EncodeU256(e.unsigned.nonce), EncodeU256(e.unsigned.gas_price),
          EncodeU256(e.unsigned.gas), EncodeAction(e.unsigned.action),
          EncodeU256(e.unsigned.value), EncodeBytes(e.unsigned.data),
          EncodeU64(e.network_v), EncodeU256(e.r), EncodeU256(e.s)>>)

\* The steps of the envelope's decode, in the order it takes them.
DecodeSteps ==
    <<"item_count", "keccak", "val_at(0)", "val_at(1)", "val_at(2)",
      "val_at(3)", "val_at(4)", "val_at(5)", "val_at(6)", "val_at(7)",
      "val_at(8)">>

\* A failed decode that stopped after the first n steps.
DecodeErr(e, n) ==
    [ok |-> FALSE, err |-> e, val |-> <<>>, steps |-> SubSeq(DecodeSteps, 1, n)]

\* The envelope built from the transaction u and the signature reads sig,
\* or the first error: of u, else of read k of sig.
EnvelopeAt(hash, u, sig, k) ==
    IF ~u.ok THEN DecodeErr(u.err, 2 + u.reads)
    ELSE IF k # 0 THEN DecodeErr(sig[k].err, 8 + k)
    ELSE [ok |-> TRUE, err |-> "",
          val |-> UnverifiedLegacyTransaction(u.val, sig[1].val, sig[2].val,
                                              sig[3].val, hash),
          steps |-> DecodeSteps]

\* unsigned: LegacyTransaction::decode(d)?, network_v: d.val_at(6)?,
\* r: d.val_at(7)?, s: d.val_at(8)?, hash
EnvelopeFrom(hash, u, sig) == EnvelopeAt(hash, u, sig, FirstErr(sig))

\* Mutant: only lists shorter than 9 items are refused.
DecodeCountedAtLeast9(d, n) ==
    IF ~n.ok THEN DecodeErr(n.err, 1)
    ELSE IF n.val < 9 THEN DecodeErr("RlpIncorrectListLen", 1)
    ELSE EnvelopeFrom(keccak(d), LegacyTransaction_decode(d),
                      SubSeq(val_at(d), 7, 9))

\* The decode once item_count() returned n: the list length is checked,
\* then the raw bytes are hashed, then the fields are read.
DecodeCounted(d, n) ==
    IF ~n.ok THEN DecodeErr(n.err, 1)
    ELSE IF n.val # 9 THEN DecodeErr("RlpIncorrectListLen", 1)
    ELSE EnvelopeFrom(keccak(d), LegacyTransaction_decode(d),
                      SubSeq(val_at(d), 7, 9))

\* <UnverifiedLegacyTransaction as rlp::Decodable>::decode; `steps` lists
\* what ran before it returned.
UnverifiedLegacyTransaction_decode(d) == DecodeCounted(d, item_count(d))

\* fn validate_v
validate_v(v) == v \in 0 .. 1

\* Mutant: the recovery id stored as it came.
to_network_v_raw(v, chain_id) == [panic |-> FALSE, val |-> v]

\* fn to_network_v
to_network_v(v, chain_id) == add_chain_replay_protection(v, chain_id)

\* pub fn new_with_chain_id: kind is "Ok", "Err" or "Panic".
new_with_chain_id(unsigned, r, s, v, chain_id, hash) ==
    LET network_v == to_network_v(v, chain_id) IN
    IF ~validate_v(v)
    THEN [kind |-> "Err", err |-> "InvalidSignature", val |-> <<>>]
    ELSE IF network_v.panic
    THEN [kind |-> "Panic", err |-> "", val |-> <<>>]
    ELSE [kind |-> "Ok", err |-> "",
          val |-> UnverifiedLegacyTransaction(unsigned, network_v.val, r, s,
                                              hash)]

\* pub fn new_with_network_v
new_with_network_v(unsigned, r, s, network_v, hash) ==
    [kind |-> "Ok", err |-> "",
     val |-> UnverifiedLegacyTransaction(unsigned, network_v, r, s, hash)]

\* Mutant: the hash is not stored.
set_hash_dropped(e, hash) == e

\* Mutant: the hash is stored and r is cleared.
set_hash_clearing_r(e, hash) == [e EXCEPT !.hash = hash, !.r = <<>>]

\* fn set_hash
set_hash(e, hash) == [e EXCEPT !.hash = hash]

\* pub fn standard_v
standard_v(e) == check_replay_protection(e.network_v)

(***************************************************************************)
(* The values the operations are tried on.                                 *)
(***************************************************************************)
Address1 == [i \in 1 .. 20 |-> 17]

LongData == [i \in 1 .. 56 |-> 128 + i]

TxSamples ==
    { LegacyTransaction(<<>>, <<1>>, <<82, 8>>, Create, <<127>>, <<0>>),
      LegacyTransaction(<<127>>, <<128>>, <<1>>, Call(Address1), <<1, 0>>, <<>>),
      LegacyTransaction(<<128>>, <<1, 0>>, <<82, 8>>, Call(Address1), <<>>,
                        LongData) }

\* The (r, s) pairs tried.
SigSamples == { <<<<>>, <<200, 7>>>>, <<<<200, 7>>, <<9>>>> }

\* Chain ids: the small ones, and those at which 35 + 2n + v leaves the u64.
ChainIdSamples ==
    (0 .. MaxChainId)
        \cup { (U64Modulus - 36) \div 2, (U64Modulus - 36) \div 2 + 1,
               U64Modulus \div 2 }

OptChainIds == { <<>> } \cup { <<n>> : n \in ChainIdSamples }

RecoveryIdSamples == 0 .. 2

NetworkVSamples == { 0, 1, 2, 27, 28, 29, 35, 36, 37, 38, U64Max }

\* Digests a caller may hand over: unrelated ones, and the digest of the
\* sealed encoding for some network v.
HashSamples(unsigned, r, s) ==
    { keccak(<<0>>) }
        \cup { keccak(rlp_append_sealed_transaction(
                   UnverifiedLegacyTransaction(unsigned, nv, r, s, keccak(<<>>))).raw)
               : nv \in { 27 } }

\* Items of containers handed to the decoders: the sealed items of a
\* sample, an extra item, and items of the wrong shape.
SampleItems(t, nv) ==
    <<EncodeU256(t.nonce), EncodeU256(t.gas_price), EncodeU256(t.gas),
      EncodeAction(t.action), EncodeU256(t.value), EncodeBytes(t.data),
      EncodeU64(nv), EncodeU256(<<200, 7>>), EncodeU256(<<9>>), EncodeU64(0)>>

WellFormedItemLists ==
    { SubSeq(SampleItems(t, nv), 1, k) :
        t \in TxSamples, nv \in { 1, 37 }, k \in { 0, 5, 6, 7, 8, 9, 10 } }

IllTypedItemLists ==
    LET base == SampleItems(CHOOSE t \in TxSamples : t.action.tag = "Call", 37) IN
    UNION { { SubSeq([base EXCEPT ![i] = bad], 1, k) : k \in { 6, 9 } } :
            i \in { 1, 4, 7 },
            bad \in { EncodeBytes(<<0, 5>>), EncodeBytes(<<1, 2, 3>>),
                      EncodeList(<<>>), EncodeBytes([j \in 1 .. 33 |-> 1]) } }

ContainerSamples ==
    { EncodeList(items) : items \in WellFormedItemLists \cup IllTypedItemLists }
        \cup { EncodeBytes(<<>>), EncodeBytes(<<5>>) }

NoOrigin == [ctor |-> "none", v |-> 0, chain_id |-> <<>>, hash |-> keccak(<<>>)]

(***************************************************************************)
(* Operations.                                                             *)
(***************************************************************************)
Init ==
    /\ overflow_checks \in BOOLEAN
    /\ tx = <<>>
    /\ env = <<>>
    /\ origin = NoOrigin
    /\ op = "init"
    /\ arg = <<>>
    /\ ret = <<>>
    /\ set_hash_calls = 0

\* Direct construction of a LegacyTransaction.
NewTransaction(t) ==
    /\ tx = <<>> /\ env = <<>>
    /\ tx' = <<t>>
    /\ op' = "new_transaction" /\ arg' = <<>> /\ ret' = <<>>
    /\ UNCHANGED <<overflow_checks, env, origin, set_hash_calls>>

\* LegacyTransaction::decode(d)
DecodeUnsigned(d) ==
    /\ tx = <<>> /\ env = <<>>
    /\ LET res == LegacyTransaction_decode(d) IN
           /\ tx' = IF res.ok THEN <<res.val>> ELSE <<>>
           /\ ret' = res
    /\ op' = "LegacyTransaction::decode"
    /\ arg' = [raw |-> d]
    /\ UNCHANGED <<overflow_checks, env, origin, set_hash_calls>>

\* tx.message_hash(chain_id)
MessageHash(chain_id) ==
    /\ tx # <<>>
    /\ op' = "message_hash"
    /\ arg' = [chain_id |-> chain_id]
    /\ ret' = message_hash(tx[1], chain_id)
    /\ UNCHANGED <<overflow_checks, tx, env, origin, set_hash_calls>>

\* UnverifiedLegacyTransaction::new_with_chain_id(tx, r, s, v, chain_id, hash);
\* the transaction is moved into the call.
NewWithChainId(r, s, v, chain_id, hash) ==
    /\ tx # <<>>
    /\ tx' = <<>>
    /\ LET res == new_with_chain_id(tx[1], r, s, v, chain_id, hash) IN
           /\ env' = IF res.kind = "Ok" THEN <<res.val>> ELSE <<>>
           /\ origin' = IF res.kind = "Ok"
                        THEN [ctor |-> "new_with_chain_id", v |-> v,
                              chain_id |-> chain_id, hash |-> hash]
                        ELSE NoOrigin
           /\ ret' = res
    /\ op' = "new_with_chain_id"
    /\ arg' = [unsigned |-> tx[1], r |-> r, s |-> s, v |-> v,
               chain_id |-> chain_id, hash |-> hash]
    /\ set_hash_calls' = 0
    /\ UNCHANGED overflow_checks

\* UnverifiedLegacyTransaction::new_with_network_v(tx, r, s, network_v, hash)
NewWithNetworkV(r, s, network_v, hash) ==
    /\ tx # <<>>
    /\ tx' = <<>>
    /\ LET res == new_with_network_v(tx[1], r, s, network_v, hash) IN
           /\ env' = <<res.val>>
           /\ ret' = res
    /\ origin' = [ctor |-> "new_with_network_v", v |-> network_v,
                  chain_id |-> <<>>, hash |-> hash]
    /\ op' = "new_with_network_v"
    /\ arg' = [unsigned |-> tx[1], r |-> r, s |-> s, network_v |-> network_v,
               hash |-> hash]
    /\ set_hash_calls' = 0
    /\ UNCHANGED overflow_checks

\* The envelope's decode, of the bytes d.
DecodeFrom(d, sent) ==
    /\ LET res == UnverifiedLegacyTransaction_decode(d) IN
           /\ env' = IF res.ok THEN <<res.val>> ELSE <<>>
           /\ origin' = IF res.ok
                        THEN [ctor |-> "decode", v |-> 0, chain_id |-> <<>>,
                              hash |-> keccak(d)]
                        ELSE NoOrigin
           /\ ret' = res
    /\ arg' = [raw |-> d, sent |-> sent]
    /\ set_hash_calls' = 0
    /\ UNCHANGED <<overflow_checks, tx>>

\* UnverifiedLegacyTransaction::decode of bytes off the wire.
DecodeSigned(d) ==
    /\ tx = <<>> /\ env = <<>>
    /\ op' = "decode"
    /\ DecodeFrom(d, <<>>)

\* rlp_append(env, stream): the sealed encoding of the envelope.
Encode ==
    /\ env # <<>>
    /\ op' = "rlp_append"
    /\ arg' = <<>>
    /\ ret' = rlp_append_sealed_transaction(env[1])
    /\ UNCHANGED <<overflow_checks, tx, env, origin, set_hash_calls>>

\* decode of the bytes the envelope was just encoded to; the decoded
\* envelope replaces it.
DecodeEncoded ==
    /\ env # <<>>
    /\ op = "rlp_append" /\ ret.finished
    /\ op' = "decode_encoded"
    /\ DecodeFrom(ret.raw, env)

\* env.set_hash(hash)
SetHash(hash) ==
    /\ env # <<>>
    /\ set_hash_calls < MaxSetHash
    /\ env' = <<set_hash(env[1], hash)>>
    /\ op' = "set_hash"
    /\ arg' = [hash |-> hash]
    /\ ret' = <<>>
    /\ origin' = [origin EXCEPT !.hash = hash]
    /\ set_hash_calls' = set_hash_calls + 1
    /\ UNCHANGED <<overflow_checks, tx>>

\* env.standard_v()
StandardV ==
    /\ env # <<>>
    /\ op' = "standard_v"
    /\ arg' = <<>>
    /\ ret' = standard_v(env[1])
    /\ UNCHANGED <<overflow_checks, tx, env, origin, set_hash_calls>>

\* The accessors: nonce(), gas_price(), gas(), action(), value(), data()
\* of the transaction (through Deref), r(), s(), v(), hash() of the envelope.
Accessors(e) ==
    [nonce |-> e.unsigned.nonce, gas_price |-> e.unsigned.gas_price,
     gas |-> e.unsigned.gas, action |-> e.unsigned.action,
     value |-> e.unsigned.value, data |-> e.unsigned.data,
     r |-> e.r, s |-> e.s, v |-> e.network_v, hash |-> e.hash]

\* Every accessor of env is read.
Read ==
    /\ env # <<>>
    /\ op' = "accessors"
    /\ arg' = <<>>
    /\ ret' = Accessors(env[1])
    /\ UNCHANGED <<overflow_checks, tx, env, origin, set_hash_calls>>

\* The value held goes out of scope.
Drop ==
    /\ tx # <<>> \/ env # <<>>
    /\ tx' = <<>> /\ env' = <<>> /\ origin' = NoOrigin
    /\ op' = "drop" /\ arg' = <<>> /\ ret' = <<>>
    /\ set_hash_calls' = 0
    /\ UNCHANGED overflow_checks

Next ==
    \/ \E t \in TxSamples : NewTransaction(t)
    \/ \E d \in ContainerSamples : DecodeUnsigned(d)
    \/ \E c \in OptChainIds : MessageHash(c)
    \/ /\ tx # <<>>
       /\ \E sig \in SigSamples, v \in RecoveryIdSamples, c \in OptChainIds :
             \E h \in HashSamples(tx[1], sig[1], sig[2]) :
                NewWithChainId(sig[1], sig[2], v, c, h)
    \/ /\ tx # <<>>
       /\ \E sig \in SigSamples, nv \in NetworkVSamples :
             \E h \in HashSamples(tx[1], sig[1], sig[2]) :
                NewWithNetworkV(sig[1], sig[2], nv, h)
    \/ \E d \in ContainerSamples : DecodeSigned(d)
    \/ Encode
    \/ DecodeEncoded
    \/ /\ env # <<>>
       /\ \E h \in { keccak(<<1>>),
                     keccak(rlp_append_sealed_transaction(env[1]).raw) } :
             SetHash(h)
    \/ StandardV
    \/ Read
    \/ Drop

Spec == Init /\ [][Next]_vars

(***************************************************************************)
(* The replay protection functions on their own, over every u64.           *)
(***************************************************************************)
\* eip155_methods::add_chain_replay_protection(v, chain_id)
AddChainReplayProtection(v, chain_id) ==
    /\ op' = "add_chain_replay_protection"
    /\ arg' = [v |-> v, chain_id |-> chain_id]
    /\ ret' = add_chain_replay_protection(v, chain_id)
    /\ UNCHANGED <<overflow_checks, tx, env, origin, set_hash_calls>>

\* eip155_methods::check_replay_protection(v)
CheckReplayProtection(v) ==
    /\ op' = "check_replay_protection"
    /\ arg' = [v |-> v, chain_id |-> <<>>]
    /\ ret' = check_replay_protection(v)
    /\ UNCHANGED <<overflow_checks, tx, env, origin, set_hash_calls>>

NextTransform ==
    \/ \E v \in RecoveryIdSamples :
          \E c \in { <<>> } \cup { <<n>> : n \in 0 .. U64Max } :
             AddChainReplayProtection(v, c)
    \/ \E v \in 0 .. U64Max : CheckReplayProtection(v)

SpecTransform == Init /\ [][NextTransform]_vars

(***************************************************************************)
(* Properties.                                                             *)
(***************************************************************************)
\* The network v the replay protection scheme prescribes, as an unbounded
\* integer: recoveryId + 27, or recoveryId + 35 + 2 * chainId.
PrescribedNetworkV(v, chain_id) ==
    IF chain_id = <<>> THEN v + 27 ELSE v + 35 + 2 * chain_id[1]

\* The item count of the raw list d, -1 when d is no list.
CountOf(d) == IF item_count(d).ok THEN item_count(d).val ELSE 0 - 1

\* C1 (as claimed): an envelope built by new_with_chain_id(recoveryId,
\* chainId), for recovery id 0 or 1 and any chain id, absent or present and
\* 0 included, reports standard_v() = recoveryId.
C1_RoundTripEveryChainId ==
    (op = "standard_v" /\ origin.ctor = "new_with_chain_id") => ret = origin.v

\* C2 (as claimed): LegacyTransaction::decode rejects every container whose
\* item count is not exactly 6.
C2_RejectsOtherArity ==
    (op = "LegacyTransaction::decode" /\ CountOf(arg.raw) # 6) => ~ret.ok

\* C2 (amended): LegacyTransaction::decode takes no item count.  It succeeds
\* exactly when items 0..5 each decode, whatever follows them, and then
\* returns the transaction made of those six values; a list of fewer than 6
\* items is rejected because a read fails.
C2_NoArityCheck ==
    op = "LegacyTransaction::decode" =>
        /\ ret.ok <=> \A i \in 1 .. 6 : val_at(arg.raw)[i].ok
        /\ (CountOf(arg.raw) >= 0 /\ CountOf(arg.raw) < 6) => ~ret.ok
        /\ ret.ok =>
               /\ ret.val.nonce = val_at(arg.raw)[1].val
               /\ ret.val.gas_price = val_at(arg.raw)[2].val
               /\ ret.val.gas = val_at(arg.raw)[3].val
               /\ ret.val.action = val_at(arg.raw)[4].val
               /\ ret.val.value = val_at(arg.raw)[5].val
               /\ ret.val.data = val_at(arg.raw)[6].val
               /\ tx = <<ret.val>>

\* C2 witness: a 9-item container decoded into a LegacyTransaction.
C2_Witness ==
    op = "LegacyTransaction::decode" /\ ret.ok /\ CountOf(arg.raw) = 9

\* C3 (as claimed): in every accepted envelope network_v is never a raw
\* recovery id 0 or 1; it is 27, 28 or at least 35.
C3_NeverRawRecoveryId ==
    env # <<>> =>
        /\ env[1].network_v \notin 0 .. 1
        /\ env[1].network_v \in { 27, 28 } \/ env[1].network_v >= 35

\* C3 (amended): network_v is what the construction path computed or was
\* given.  new_with_chain_id stores add_chain_replay_protection(v, chain_id),
\* which is the prescribed v + 27 or v + 35 + 2 * chainId, and so neither 0
\* nor 1, whenever that sum fits a u64; new_with_network_v stores its
\* argument and decode stores item 6 verbatim, 0 and 1 included.
C3_NetworkVAsConstructed ==
    env # <<>> =>
        /\ origin.ctor = "new_with_chain_id" =>
               /\ origin.v \in 0 .. 1
               /\ env[1].network_v =
                      add_chain_replay_protection(origin.v, origin.chain_id).val
               /\ PrescribedNetworkV(origin.v, origin.chain_id) <= U64Max =>
                      /\ env[1].network_v =
                             PrescribedNetworkV(origin.v, origin.chain_id)
                      /\ env[1].network_v \notin 0 .. 1
        /\ origin.ctor = "new_with_network_v" => env[1].network_v = origin.v
        /\ (origin.ctor = "decode" /\ op = "decode") =>
               env[1].network_v = val_at(arg.raw)[7].val

\* C3 witness: recovery id 1 on chain 1 is stored as 38.
C3_Witness ==
    /\ env # <<>>
    /\ origin.ctor = "new_with_chain_id"
    /\ origin.v = 1 /\ origin.chain_id = <<1>>
    /\ env[1].network_v = 38

\* C4 (as claimed): the stored hash always equals the hash of the bytes
\* rlp_append_sealed_transaction produces for the envelope.
C4_HashIsOfReencoding ==
    env # <<>> =>
        env[1].hash = keccak(rlp_append_sealed_transaction(env[1]).raw)

\* C4 (amended): the stored hash is the digest last supplied for the
\* envelope: the keccak of the raw input bytes after decode, the hash
\* argument after new_with_chain_id or new_with_network_v, and the argument
\* of the latest set_hash.  Nothing checks it against the re-encoding.
C4_HashIsLastSupplied ==
    env # <<>> =>
        /\ env[1].hash = origin.hash
        /\ op = "set_hash" => env[1].hash = arg.hash
        /\ op \in { "new_with_chain_id", "new_with_network_v" } =>
               env[1].hash = arg.hash
        /\ op \in { "decode", "decode_encoded" } =>
               env[1].hash = keccak(arg.raw)

\* C4 witness: after set_hash the stored hash is not that of the re-encoding.
C4_Witness ==
    /\ env # <<>>
    /\ op = "set_hash"
    /\ env[1].hash # keccak(rlp_append_sealed_transaction(env[1]).raw)

\* C5: decoding the 9-item container rlp_append_sealed_transaction(e)
\* produced succeeds and yields e's nonce, gas_price, gas, action, value,
\* data, network_v, r and s, with the hash of exactly those bytes.
C5_SignedRoundTrip ==
    op = "decode_encoded" =>
        /\ arg.raw = rlp_append_sealed_transaction(arg.sent[1]).raw
        /\ CountOf(arg.raw) = 9
        /\ ret.ok
        /\ ret.val.unsigned = arg.sent[1].unsigned
        /\ ret.val.network_v = arg.sent[1].network_v
        /\ ret.val.r = arg.sent[1].r
        /\ ret.val.s = arg.sent[1].s
        /\ ret.val.hash = keccak(arg.raw)
        /\ env = <<ret.val>>

\* C5 witness: a call with data and signature, sent with another hash, came
\* back from its encoding.
C5_Witness ==
    /\ op = "decode_encoded"
    /\ ret.ok
    /\ arg.sent[1].unsigned.action.tag = "Call"
    /\ arg.sent[1].r # arg.sent[1].s
    /\ arg.sent[1].hash # ret.val.hash

\* C6: the envelope's decode fails with RlpIncorrectListLen for every list
\* whose item count is not 9, having only counted the items (no field read,
\* no hash) and produced no envelope; a list of exactly 9 well-typed items
\* decodes with items 6, 7, 8 as network_v, r, s.
C6_ArityChecked ==
    op = "decode" =>
        /\ (CountOf(arg.raw) >= 0 /\ CountOf(arg.raw) # 9) =>
               /\ ~ret.ok
               /\ ret.err = "RlpIncorrectListLen"
               /\ ret.steps = <<"item_count">>
               /\ env = <<>>
        /\ (CountOf(arg.raw) = 9 /\ \A i \in 1 .. 9 : val_at(arg.raw)[i].ok) =>
               /\ ret.ok
               /\ ret.val.network_v = val_at(arg.raw)[7].val
               /\ ret.val.r = val_at(arg.raw)[8].val
               /\ ret.val.s = val_at(arg.raw)[9].val
               /\ env = <<ret.val>>

\* C6 witness: a list of 10 items was refused for its length.
C6_Witness ==
    /\ op = "decode"
    /\ CountOf(arg.raw) = 10
    /\ ret.err = "RlpIncorrectListLen"

\* C7 (as claimed): new_with_chain_id returns InvalidSignature exactly when
\* v is not 0 or 1; for v in {0, 1} it returns an envelope whose network_v is
\* add_chain_replay_protection(v, chain_id) and whose unsigned part, r, s
\* and hash are the arguments.
C7_InvalidSignatureIffBadV ==
    op = "new_with_chain_id" =>
        /\ (ret.kind = "Err" /\ ret.err = "InvalidSignature") <=>
               arg.v \notin 0 .. 1
        /\ arg.v \in 0 .. 1 =>
               /\ ret.kind = "Ok"
               /\ ret.val.network_v =
                      add_chain_replay_protection(arg.v, arg.chain_id).val
               /\ ret.val.unsigned = arg.unsigned
               /\ ret.val.r = arg.r
               /\ ret.val.s = arg.s
               /\ ret.val.hash = arg.hash
               /\ env = <<ret.val>>

\* C8: check_replay_protection is defined for every u64: 0 for 27, 1 for
\* 28, (v - 1) mod 2 above 36, and the sentinel 4 for every other v (up to
\* 26, and 29 to 36); its result is always 0, 1 or 4.
C8_CheckReplayProtection ==
    op = "check_replay_protection" =>
        /\ arg.v = 27 => ret = 0
        /\ arg.v = 28 => ret = 1
        /\ arg.v > 36 => ret = (arg.v - 1) % 2
        /\ (arg.v <= 26 \/ (29 <= arg.v /\ arg.v <= 36)) => ret = 4
        /\ ret \in { 0, 1, 4 }

\* C8 witness: 36 is answered with the sentinel.
C8_Witness == op = "check_replay_protection" /\ arg.v = 36 /\ ret = 4

\* C9 (as claimed): the hash of a constructed envelope is overwritten at
\* most once.
C9_HashOverwrittenAtMostOnce == set_hash_calls <= 1

\* C9 (amended): set_hash may run any number of times on an envelope, each
\* call overwriting the hash with its argument; of the operations on a
\* constructed envelope (rlp_append, standard_v, the accessors, set_hash) it
\* is the only one that changes the envelope, and it leaves unsigned,
\* network_v, r and s unchanged.
C9_OnlySetHashMutates ==
    [][ (env # <<>> /\ op' \in { "rlp_append", "standard_v", "accessors",
                                 "set_hash" }) =>
            /\ env' # <<>>
            /\ env'[1].unsigned = env[1].unsigned
            /\ env'[1].network_v = env[1].network_v
            /\ env'[1].r = env[1].r
            /\ env'[1].s = env[1].s
            /\ op' # "set_hash" => env' = env
            /\ op' = "set_hash" => env'[1].hash = arg'.hash ]_vars

\* C9 witness: a second set_hash changed the hash again.
C9_Witness ==
    /\ op = "set_hash"
    /\ set_hash_calls = 2
    /\ env[1].hash = arg.hash

\* C10 (as claimed): for recovery id 0 or 1 and every u64 chain id,
\* add_chain_replay_protection returns exactly recoveryId + 35 + 2 * chainId
\* (recoveryId + 27 without chain id), with no overflow, wrap-around or abort.
C10_EncodeIsExact ==
    (op = "add_chain_replay_protection" /\ arg.v \in 0 .. 1) =>
        /\ ~ret.panic
        /\ ret.val = PrescribedNetworkV(arg.v, arg.chain_id)

=============================================================================
